---- MODULE Spec2Model ----
(***************************************************************************)
(* Model of the acashmarketplace backend (Express relay in front of the    *)
(* AliExpress affiliate API and Stripe).  Three revisions of the server    *)
(* are modelled side by side: src/server.js, src/unnamed/part_000 and      *)
(* src/unnamed/part_001 (the latter replaces only /api/cart/add and keeps  *)
(* the other handlers of part_000).                                        *)
(*                                                                         *)
(* Strings the code inspects are sequences of one-character strings, so    *)
(* that includes, split, startsWith, replace, parseFloat, Number and       *)
(* encodeURIComponent are computed rather than assumed.  Numbers are       *)
(* records [k, v]: k is "fin", "nan", "inf" or "ninf" and v the value in   *)
(* thousandths.                                                            *)
(***************************************************************************)
EXTENDS Integers, Sequences, FiniteSets

VARIABLES
    variant,      \* which revision of the server handles the request
    endpoint,     \* route of the request in flight
    req,          \* the request's inputs (query / JSON body)
    pc,           \* position of the handler
    responses,    \* number of responses sent for the request
    resp,         \* the response sent (status and body)
    sku,          \* what getSkuDetails returned to the handler
    stuck,        \* the outbound calls of the request that never settle
    log,          \* the outbound calls and pipeline steps, in order
    upstream,     \* what the upstream search call did (HTTP status, body)
    products,     \* the product list the upstream search returned
    items,        \* the items that survived the category filter
    pending,      \* indices of items whose shipping lookup is in flight
    shipping,     \* index -> what getShippingInfo returned
    mapped,       \* index -> what the item's async mapper returned
    env,          \* process.env: which AliExpress credentials are set
    stripeItems,  \* line_items handed to stripe.checkout.sessions.create
    params1,      \* a params object, as the sequence of its insertions
    params2,      \* the same key/value pairs, inserted in another order
    secret,       \* the app secret used for signing
    url1,         \* generateSignedUrl(params1, secret), once computed
    url2          \* generateSignedUrl(params2, secret), once computed

serverVars == <<variant, endpoint, req, pc, responses, resp, sku, stuck, log,
                upstream, products, items, pending, shipping, mapped, env,
                stripeItems>>
signVars == <<params1, params2, secret, url1, url2>>
vars == <<variant, endpoint, req, pc, responses, resp, sku, stuck, log,
          upstream, products, items, pending, shipping, mapped, env, stripeItems,
          params1, params2, secret, url1, url2>>

(***************************************************************************)
(* Bounds of the model.                                                    *)
(***************************************************************************)
MaxParams == 3
MaxItems == 2

(***************************************************************************)
(* Sequences and strings.                                                  *)
(***************************************************************************)
None == [none |-> TRUE]

Range(s) == {s[i] : i \in 1..Len(s)}

\* the element of a singleton; { f(v) : v \in {e} } computes e once, where a
\* LET would leave TLC computing it at each of its uses
The(S) == CHOOSE v \in S : TRUE

RECURSIVE Flatten(_)
Flatten(ss) == IF ss = <<>> THEN <<>> ELSE Head(ss) \o Flatten(Tail(ss))

\* Array.prototype.join
RECURSIVE Join(_, _)
Join(ss, sep) ==
    IF ss = <<>> THEN <<>>
    ELSE IF Len(ss) = 1 THEN Head(ss)
    ELSE Head(ss) \o sep \o Join(Tail(ss), sep)

\* UTF-16 code unit of the characters the model uses
Code(c) ==
    CASE c = " " -> 32
      [] c = "&" -> 38
      [] c = "1" -> 49
      [] c = "B" -> 66
      [] c = "_" -> 95
      [] c = "a" -> 97
      [] c = "b" -> 98

\* the default comparison of Array.prototype.sort: by code units, a proper
\* prefix first
RECURSIVE StrLess(_, _)
StrLess(a, b) ==
    IF b = <<>> THEN FALSE
    ELSE IF a = <<>> THEN TRUE
    ELSE IF Code(Head(a)) # Code(Head(b)) THEN Code(Head(a)) < Code(Head(b))
    ELSE StrLess(Tail(a), Tail(b))

RECURSIVE InsertSorted(_, _)
InsertSorted(k, s) ==
    IF s = <<>> THEN <<k>>
    ELSE IF StrLess(k, Head(s)) THEN <<k>> \o s
    ELSE <<Head(s)>> \o InsertSorted(k, Tail(s))

RECURSIVE SortStrings(_)
SortStrings(s) ==
    IF s = <<>> THEN <<>> ELSE InsertSorted(Head(s), SortStrings(Tail(s)))

(***************************************************************************)
(* JavaScript values: undefined and strings; truthiness; numbers.          *)
(***************************************************************************)
Undefined == [t |-> "undefined", s |-> <<>>]

Str(s) == [t |-> "string", s |-> s]

\* undefined and "" are falsy, every other string is truthy
Truthy(x) == x.t = "string" /\ x.s # <<>>

\* a || b
OrElse(a, b) == IF Truthy(a) THEN a ELSE b

\* String(x), as a template literal or parseFloat applies it
ToString(x) == IF x.t = "undefined" THEN <<"u", "n", "d", "e", "f", "i", "n", "e", "d">> ELSE x.s

Fin(v) == [k |-> "fin", v |-> v]
NaN == [k |-> "nan", v |-> 0]
Infinity == [k |-> "inf", v |-> 0]
NegInfinity == [k |-> "ninf", v |-> 0]

Negate(a) ==
    CASE a.k = "fin" -> Fin(0 - a.v)
      [] a.k = "inf" -> NegInfinity
      [] a.k = "ninf" -> Infinity
      [] OTHER -> NaN

\* a + b
Add(a, b) ==
    CASE a.k = "nan" \/ b.k = "nan" -> NaN
      [] a.k = "fin" /\ b.k = "fin" -> Fin(a.v + b.v)
      [] a.k = "fin" -> b
      [] b.k = "fin" -> a
      [] a.k = b.k -> a
      [] OTHER -> NaN

\* a * (n / d) for a positive constant n / d; exact for the two-decimal
\* amounts the model feeds it (thousandths that are multiples of ten)
Scale(a, n, d) == IF a.k = "fin" THEN Fin((a.v * n) \div d) ELSE a

\* a >= 0
NonNegative(a) == a.k = "inf" \/ (a.k = "fin" /\ a.v >= 0)

\* a > 0
Positive(a) == a.k = "inf" \/ (a.k = "fin" /\ a.v > 0)

\* x || 0 on a number: NaN and 0 are falsy
NumOrZero(a) == IF a.k = "nan" \/ (a.k = "fin" /\ a.v = 0) THEN Fin(0) ELSE a

\* Math.round(a * 100): a in thousandths, the result in hundredths (cents);
\* Math.round rounds a half towards +Infinity
RoundCents(a) == IF a.k = "fin" THEN Fin((a.v + 5) \div 10) ELSE a

(***************************************************************************)
(* parseFloat and Number on strings.                                       *)
(***************************************************************************)
Digits == {"0", "1", "2", "3", "4", "5", "6", "7", "8", "9"}

DigitVal(c) ==
    CASE c = "0" -> 0 [] c = "1" -> 1 [] c = "2" -> 2 [] c = "3" -> 3
      [] c = "4" -> 4 [] c = "5" -> 5 [] c = "6" -> 6 [] c = "7" -> 7
      [] c = "8" -> 8 [] c = "9" -> 9

DigitChar(d) == <<"0", "1", "2", "3", "4", "5", "6", "7", "8", "9">>[d + 1]

StartsWith(s, p) == Len(s) >= Len(p) /\ SubSeq(s, 1, Len(p)) = p

Drop(s, n) == SubSeq(s, n + 1, Len(s))

RECURSIVE TrimStart(_)
TrimStart(s) == IF s # <<>> /\ Head(s) = " " THEN TrimStart(Tail(s)) ELSE s

RECURSIVE TrimEnd(_)
TrimEnd(s) ==
    IF s # <<>> /\ s[Len(s)] = " " THEN TrimEnd(SubSeq(s, 1, Len(s) - 1)) ELSE s

\* length of the longest prefix of digits
RECURSIVE DigitRun(_)
DigitRun(s) == IF s # <<>> /\ Head(s) \in Digits THEN 1 + DigitRun(Tail(s)) ELSE 0

RECURSIVE DigitsValue(_)
DigitsValue(s) ==
    IF s = <<>> THEN 0 ELSE DigitsValue(SubSeq(s, 1, Len(s) - 1)) * 10 + DigitVal(s[Len(s)])

\* the fraction digits as thousandths (digits past the third are beyond the
\* model's resolution and are cut)
FractionValue(s) ==
    LET d == [i \in 1..3 |-> IF i <= Len(s) THEN DigitVal(s[i]) ELSE 0]
    IN  d[1] * 100 + d[2] * 10 + d[3]

InfinityLiteral == <<"I", "n", "f", "i", "n", "i", "t", "y">>

\* the longest prefix of s that is an unsigned decimal literal (digits, an
\* optional point and fraction, or "Infinity"): [ok, num, rest]; exponents are
\* not modelled
UnsignedPrefix(s) ==
    IF StartsWith(s, InfinityLiteral)
    THEN [ok |-> TRUE, num |-> Infinity, rest |-> Drop(s, Len(InfinityLiteral))]
    ELSE LET ni == DigitRun(s)
             afterInt == Drop(s, ni)
             hasPoint == afterInt # <<>> /\ Head(afterInt) = "."
             nf == IF hasPoint THEN DigitRun(Tail(afterInt)) ELSE 0
             usePoint == hasPoint /\ ni + nf > 0
         IN  IF ni + nf = 0
             THEN [ok |-> FALSE, num |-> NaN, rest |-> s]
             ELSE [ok |-> TRUE,
                   num |-> Fin(DigitsValue(SubSeq(s, 1, ni)) * 1000
                               + FractionValue(SubSeq(afterInt, 2, nf + 1))),
                   rest |-> IF usePoint THEN Drop(afterInt, nf + 1) ELSE afterInt]

SignedPrefix(s) ==
    IF s # <<>> /\ Head(s) \in {"+", "-"}
    THEN LET r == UnsignedPrefix(Tail(s))
         IN  IF r.ok /\ Head(s) = "-"
             THEN [ok |-> TRUE, num |-> Negate(r.num), rest |-> r.rest]
             ELSE r
    ELSE UnsignedPrefix(s)

\* parseFloat(x): the longest numeric prefix after leading white space
parseFloat(x) ==
    The({ IF r.ok THEN r.num ELSE NaN : r \in { SignedPrefix(TrimStart(ToString(x))) } })

\* Number(x): undefined is NaN, a blank string is 0, otherwise the whole
\* trimmed string must be a numeric literal
Number(x) ==
    IF x.t = "undefined" THEN NaN
    ELSE The({ IF t = <<>> THEN Fin(0)
               ELSE The({ IF r.ok /\ r.rest = <<>> THEN r.num ELSE NaN
                          : r \in { SignedPrefix(t) } })
               : t \in { TrimEnd(TrimStart(x.s)) } })

(***************************************************************************)
(* Number.prototype.toFixed(2).                                            *)
(***************************************************************************)
RECURSIVE NatToString(_)
NatToString(n) ==
    IF n < 10 THEN <<DigitChar(n)>>
    ELSE NatToString(n \div 10) \o <<DigitChar(n % 10)>>

\* a count of hundredths as "i.ff" ("-0.00" prints as "0.00" unless the
\* value itself is negative, which toFixed keeps)
CentsToString(c, negative) ==
    LET a == IF c < 0 THEN 0 - c ELSE c
    IN  (IF negative THEN <<"-">> ELSE <<>>)
            \o NatToString(a \div 100) \o <<".">>
            \o <<DigitChar((a \div 10) % 10), DigitChar(a % 10)>>

\* The strings toFixed(2) can yield for a.  A value midway between two
\* hundredths goes to whichever is nearer to the binary double, which the
\* thousandths of the model do not determine: both neighbours are possible.
ToFixed2(a) ==
    CASE a.k = "nan" -> { <<"N", "a", "N">> }
      [] a.k = "inf" -> { InfinityLiteral }
      [] a.k = "ninf" -> { <<"-">> \o InfinityLiteral }
      [] OTHER ->
            LET m == IF a.v < 0 THEN 0 - a.v ELSE a.v
                lo == m \div 10
                r == m % 10
                cs == IF r < 5 THEN {lo} ELSE IF r > 5 THEN {lo + 1} ELSE {lo, lo + 1}
            IN  { CentsToString(c, a.v < 0) : c \in cs }

(***************************************************************************)
(* String.prototype.includes, split("?")[0], replace(/ /g, "%20").         *)
(***************************************************************************)
Includes(h, n) == \E i \in 0..(Len(h) - Len(n)) : SubSeq(h, i + 1, i + Len(n)) = n

RECURSIVE BeforeFirst(_, _)
BeforeFirst(s, c) ==
    IF s = <<>> \/ Head(s) = c THEN <<>> ELSE <<Head(s)>> \o BeforeFirst(Tail(s), c)

RECURSIVE ReplaceSpaces(_)
ReplaceSpaces(s) ==
    IF s = <<>> THEN <<>>
    ELSE (IF Head(s) = " " THEN <<"%", "2", "0">> ELSE <<Head(s)>>)
             \o ReplaceSpaces(Tail(s))


(***************************************************************************)
(* generateSignedUrl.  A params object is the sequence of its <<key,        *)
(* value>> insertions (Object.keys yields insertion order for the string   *)
(* keys the code uses).                                                    *)
(***************************************************************************)
ALIEXPRESS_BASE_URL == <<"https://api-sg.aliexpress.com/sync">>

ObjectKeys(params) == [i \in 1..Len(params) |-> params[i][1]]

Lookup(params, k) == (CHOOSE i \in 1..Len(params) : params[i][1] = k)

ParamValue(params, k) == params[Lookup(params, k)][2]

EncodeChar(c) ==
    CASE c = " " -> <<"%", "2", "0">>
      [] c = "&" -> <<"%", "2", "6">>
      [] OTHER -> <<c>>

encodeURIComponent(v) == Flatten([i \in 1..Len(v) |-> EncodeChar(v[i])])

\* crypto.createHmac("sha256", secret).update(msg).digest("hex").toUpperCase():
\* the digest is kept symbolic, a collision-free function of key and message
HmacSha256Hex(key, msg) == [hmac |-> <<key, msg>>]

UnsortedKeys(params) == ObjectKeys(params)

SortedKeys(params) == SortStrings(ObjectKeys(params))

SignString(params, sortedKeys) ==
    Flatten([i \in 1..Len(sortedKeys) |->
                sortedKeys[i] \o ParamValue(params, sortedKeys[i])])

QueryString(params, sortedKeys) ==
    Join([i \in 1..Len(sortedKeys) |->
             sortedKeys[i] \o <<"=">>
                 \o encodeURIComponent(ParamValue(params, sortedKeys[i]))],
         <<"&">>)

generateSignedUrl(params, sec) ==
    LET sortedKeys == SortedKeys(params)
        signature == HmacSha256Hex(sec, SignString(params, sortedKeys))
    IN  [text |-> ALIEXPRESS_BASE_URL \o <<"?">> \o QueryString(params, sortedKeys)
                      \o <<"&", "s", "i", "g", "n", "=">>,
         sign |-> signature]

(***************************************************************************)
(* Signing two objects that hold the same pairs in different insertion     *)
(* orders.                                                                 *)
(***************************************************************************)
ParamKeys == { <<"a">>, <<"a", "b">>, <<"b">>, <<"B">> }
ParamValues == { <<"1">>, <<"a", " ", "&">> }
Secrets == { "s1", "s2" }

ParamObjects ==
    UNION { { p \in [1..n -> ParamKeys \X ParamValues] :
                \A i, j \in 1..n : i # j => p[i][1] # p[j][1] } : n \in 0..MaxParams }

Swap(s, i) == [j \in 1..Len(s) |-> IF j = i THEN s[i + 1]
                                    ELSE IF j = i + 1 THEN s[i] ELSE s[j]]

ServerIdle ==
    /\ variant = "none" /\ endpoint = "none" /\ req = None /\ pc = "idle"
    /\ responses = 0 /\ resp = None /\ sku = None /\ stuck = {}
    /\ log = <<>> /\ upstream = None /\ products = <<>> /\ items = <<>> /\ pending = {}
    /\ shipping = <<>> /\ mapped = <<>> /\ env = None /\ stripeItems = None

SignInit ==
    /\ ServerIdle
    /\ params1 \in ParamObjects
    /\ params2 = params1
    /\ secret \in Secrets
    /\ url1 = None
    /\ url2 = None

\* the caller builds the same object with two properties written in the
\* other order
Reinsert ==
    /\ url2 = None
    /\ \E i \in 1..(Len(params2) - 1) : params2' = Swap(params2, i)
    /\ UNCHANGED <<params1, secret, url1, url2>>
    /\ UNCHANGED serverVars

Sign1 ==
    /\ url1 = None
    /\ url1' = generateSignedUrl(params1, secret)
    /\ UNCHANGED <<params1, params2, secret, url2>>
    /\ UNCHANGED serverVars

Sign2 ==
    /\ url2 = None
    /\ url2' = generateSignedUrl(params2, secret)
    /\ UNCHANGED <<params1, params2, secret, url1>>
    /\ UNCHANGED serverVars

SignNext == Reinsert \/ Sign1 \/ Sign2

SignSpec == SignInit /\ [][SignNext]_vars

(***************************************************************************)
(* The server: requests, upstream outcomes, responses.                     *)
(***************************************************************************)
Variants == {"server", "part_000", "part_001"}

\* process.env credentials: both set, or one of them missing
EnvAll == [appKey |-> TRUE, appSecret |-> TRUE]
EnvNoKey == [appKey |-> FALSE, appSecret |-> TRUE]
EnvNoSecret == [appKey |-> TRUE, appSecret |-> FALSE]

\* an upstream product: the fields the code reads
MakeProduct(i, kind) ==
    [product_id |-> i,
     sku_id |-> 100 + i,
     product_title |-> 200 + i,
     product_main_image_url |-> 300 + i,
     tax_rate |-> 400 + i,
     first_level_category_name |-> kind[1],
     second_level_category_name |-> kind[2],
     target_sale_price |-> kind[3]]

\* <<first_level_category_name, second_level_category_name, target_sale_price>>
ItemKinds ==
    { <<Str(<<"T", "o", "y", "s">>), Str(<<"D", "o", "l", "l", "s">>), Str(<<"1", "0", ".", "0", "0">>)>>,
      <<Str(<<"S", "h", "o", "e", "s">>), Undefined, Str(<<"1", "0", ".", "0", "0">>)>>,
      <<Str(<<"K", "i", "d", " ", "C", "l", "o", "t", "h", "i", "n", "g">>), Str(<<"T", "o", "p", "s">>), Str(<<"2", ".", "9", "9">>)>>,
      <<Str(<<"S", "p", "o", "r", "t", "s">>), Str(<<"C", "l", "o", "t", "h", "i", "n", "g">>), Str(<<"2", ".", "9", "9">>)>>,
      <<Undefined, Undefined, Str(<<"0", ".", "0", "5">>)>>,
      <<Str(<<"s", "h", "o", "e", "s">>), Str(<<"S", "h", "o", "e", "s">>), Undefined>> }

ProductLists ==
    UNION { { [i \in 1..n |-> MakeProduct(i, ks[i])] : ks \in [1..n -> ItemKinds] }
            : n \in 0..MaxItems }

\* the HTTP status of the upstream's answer: OK or not
SearchStatuses == {200, 503}

\* what the upstream search call does: fetch rejects, a non-OK status, a body
\* that is not JSON, JSON without a product list, JSON with a product list
SearchFailures ==
    { [kind |-> "reject", detail |-> "ECONNRESET"],
      [kind |-> "status", detail |-> "AliExpress API error: 503"],
      [kind |-> "nonjson", detail |-> "Invalid JSON response from AliExpress"] }

\* what a shipping lookup does: the upstream's answer, before getShippingInfo
\* reads it
ShippingOutcomes ==
    { [kind |-> "reject", fee |-> Undefined, min |-> Undefined, max |-> Undefined],
      [kind |-> "nonjson", fee |-> Undefined, min |-> Undefined, max |-> Undefined],
      [kind |-> "noresult", fee |-> Undefined, min |-> Undefined, max |-> Undefined],
      [kind |-> "result", fee |-> Undefined, min |-> Str(<<"5">>), max |-> Str(<<"9">>)],
      [kind |-> "result", fee |-> Str(<<"1", ".", "5", "0">>), min |-> Str(<<"7">>), max |-> Str(<<"1", "4">>)],
      [kind |-> "result", fee |-> Str(<<"3", ".", "9", "9">>), min |-> Str(<<"1", "0">>), max |-> Str(<<"2", "0">>)] }

\* res.status(s).json(b) / res.send(b)
Reply(status, body) ==
    /\ responses' = responses + 1
    /\ resp' = [status |-> status, body |-> body]

Logged(e, i) == Append(log, [e |-> e, i |-> i])

(***************************************************************************)
(* getShippingInfo (src/server.js 52-91).                                  *)
(***************************************************************************)
ShippingFallback ==
    [shipping_fee |-> Str(<<"0">>), min_delivery_days |-> Str(<<"N", "/", "A">>),
     max_delivery_days |-> Str(<<"N", "/", "A">>)]

\* a getShippingInfo without its fallbacks: a failed lookup yields no fee
getShippingInfoNoFallback(o) ==
    [shipping_fee |-> o.fee, min_delivery_days |-> o.min, max_delivery_days |-> o.max]

getShippingInfo(o) ==
    IF o.kind \in {"reject", "nonjson"}
    THEN ShippingFallback
    ELSE \* result is {} when the response carries none
         [shipping_fee |-> OrElse(o.fee, Str(<<"0">>)),
          min_delivery_days |-> OrElse(o.min, Str(<<"N", "/", "A">>)),
          max_delivery_days |-> OrElse(o.max, Str(<<"N", "/", "A">>))]

(***************************************************************************)
(* searchAliExpress (src/server.js 151-222, src/unnamed/part_000 133-201). *)
(***************************************************************************)
\* a filter that forgets the second-level category
KeepItemFirstLevelOnly(item) ==
    LET firstLevel == ToString(OrElse(item.first_level_category_name, Str(<<>>)))
    IN  ~Includes(firstLevel, <<"S", "h", "o", "e", "s">>) /\ ~Includes(firstLevel, <<"C", "l", "o", "t", "h", "i", "n", "g">>)

KeepItem(item) ==
    LET firstLevel == ToString(OrElse(item.first_level_category_name, Str(<<>>)))
        secondLevel == ToString(OrElse(item.second_level_category_name, Str(<<>>)))
    IN  /\ ~Includes(firstLevel, <<"S", "h", "o", "e", "s">>)
        /\ ~Includes(firstLevel, <<"C", "l", "o", "t", "h", "i", "n", "g">>)
        /\ ~Includes(secondLevel, <<"C", "l", "o", "t", "h", "i", "n", "g">>)

\* the shipping lookups made for every product the upstream returned
UnfilteredItems(ps) == ps

\* items = items.filter(...)
FilterItems(ps) == SelectSeq(ps, KeepItem)

\* a markup of 1.05 instead of 1.5
MarkUpSmall(price) == Scale(parseFloat(price), 21, 20)

\* parseFloat(item.target_sale_price) * 1.5
MarkUp(price) == Scale(parseFloat(price), 3, 2)

\* (parseFloat(item.target_sale_price) * 1.5).toFixed(2): the product is
\* computed once and then formatted
MarkedUpPrices(item) ==
    UNION { ToFixed2(a) : a \in { MarkUp(item.target_sale_price) } }

\* the objects the async mapper can return for item once its lookup gave ship
\* (null when the lookup gave no fee); server.js adds two fields
MapProduct(item, ship) ==
    IF ~Truthy(ship.shipping_fee)
    THEN { None }
    ELSE { [id |-> item.product_id,
            sku_id |-> item.sku_id,
            tax_rate |-> IF variant = "server" THEN item.tax_rate ELSE 0,
            target_sale_price |->
                IF variant = "server" THEN item.target_sale_price ELSE Undefined,
            title |-> item.product_title,
            price |-> p,
            image |-> item.product_main_image_url,
            shipping_fee |-> ship.shipping_fee,
            min_delivery_days |-> ship.min_delivery_days,
            max_delivery_days |-> ship.max_delivery_days]
           : p \in MarkedUpPrices(item) }

\* results collected in the order the lookups complete: the next free slot
FulfilInCompletionOrder(ms, i, m) ==
    [ms EXCEPT ![CHOOSE k \in 1..Len(ms) :
                    ms[k] = None /\ \A j \in 1..(k - 1) : ms[j] # None] = m]

\* Promise.all keeps the value of the i-th promise at index i, whenever it
\* settles
Fulfil(ms, i, m) == [ms EXCEPT ![i] = m]

\* Promise.all resolved as soon as one lookup has settled
AnySettled == items = <<>> \/ pending # 1..Len(items)

\* Promise.all: every mapper has returned
AllSettled == pending = {}

\* mappedProducts.filter((p) => p !== null)
NonNull(ms) == SelectSeq(ms, LAMBDA m : m # None)

\* the catch block sending the exception's message to the client
SearchErrorBodyLeaks(err) == [kind |-> "error", v |-> err]

\* res.status(500).json({ error: "Failed to fetch products" })
SearchErrorBody(err) == [kind |-> "error", v |-> "Failed to fetch products"]

\* the 400 reply without its return
FallsThroughAfterReject == FALSE

\* return res.status(400).json(...)
ReturnsAfterReject == TRUE

\* app.get("/api/search"): the query check
SearchStart ==
    /\ endpoint = "search" /\ pc = "start"
    /\ LET query == OrElse(req.q, Str(<<>>))
       IN  IF ~Truthy(query)
           THEN /\ Reply(400, [kind |-> "error", v |-> "Query is required"])
                /\ pc' = IF ReturnsAfterReject THEN "done" ELSE "try"
           ELSE /\ pc' = "try"
                /\ UNCHANGED <<responses, resp>>
    /\ UNCHANGED <<variant, endpoint, req, upstream, sku, stuck, log, products, items,
                   pending, shipping, mapped, env, stripeItems>>
    /\ UNCHANGED signVars

\* the try block up to searchAliExpress's first await: the credentials check
\* and the upstream search call
SearchTry ==
    /\ endpoint = "search" /\ pc = "try"
    /\ IF ~env.appKey \/ ~env.appSecret
       THEN /\ Reply(500, SearchErrorBody("App Key or Secret missing in .env"))
            /\ pc' = "done"
            /\ UNCHANGED log
       ELSE /\ log' = Logged("search_call", 0)
            /\ pc' = "awaitSearch"
            /\ UNCHANGED <<responses, resp>>
    /\ UNCHANGED <<variant, endpoint, req, upstream, sku, stuck, products, items,
                   pending, shipping, mapped, env, stripeItems>>
    /\ UNCHANGED signVars

\* the upstream search call fails: searchAliExpress throws, the handler's
\* catch replies
SearchFails ==
    /\ endpoint = "search" /\ pc = "awaitSearch" /\ 0 \notin stuck
    /\ \E f \in SearchFailures, st \in SearchStatuses :
          \* only part_000 checks response.ok (line 161), and it does so
          \* before it parses the body
          /\ f.kind = "status" => variant = "part_000" /\ st = 503
          /\ (f.kind = "nonjson" /\ variant = "part_000") => st = 200
          /\ f.kind = "reject" => st = 200
          /\ upstream' = [kind |-> f.kind,
                          status |-> IF f.kind = "reject" THEN 0 ELSE st]
          /\ Reply(500, SearchErrorBody(f.detail))
    /\ pc' = "done"
    /\ UNCHANGED <<variant, endpoint, req, sku, stuck, log, products, items,
                   pending, shipping, mapped, env, stripeItems>>
    /\ UNCHANGED signVars

\* the upstream search call answers with JSON: the category filter runs and
\* items.map starts every surviving item's mapper, each up to its fetch
SearchReturns ==
    /\ endpoint = "search" /\ pc = "awaitSearch" /\ 0 \notin stuck
    /\ \E ps \in ProductLists, st \in SearchStatuses :
          \* a non-OK answer is taken to carry an error document without a
          \* product list; part_000 throws on it (SearchFails), server.js
          \* reads it like any other
          /\ st # 200 => variant = "server" /\ ps = <<>>
          /\ upstream' = [kind |-> "json", status |-> st]
          /\ LET its == FilterItems(ps)
                 n == Len(its)
                 calls == [i \in 1..n |-> [e |-> "ship_call", i |-> its[i].product_id]]
             IN  /\ products' = ps
                 /\ items' = its
                 /\ log' = Logged("filter", 0) \o calls
                 /\ pending' = 1..n
                 /\ shipping' = [i \in 1..n |-> None]
                 /\ mapped' = [i \in 1..n |-> None]
    /\ pc' = "awaitShipping"
    /\ UNCHANGED <<variant, endpoint, req, responses, resp, sku, stuck, env,
                   stripeItems>>
    /\ UNCHANGED signVars

\* item i's shipping lookup settles and its mapper returns
ShippingSettles(i) ==
    /\ endpoint = "search" /\ pc \in {"awaitShipping", "done"}
    /\ i \in pending /\ i \notin stuck
    /\ \E o \in ShippingOutcomes :
          LET ship == getShippingInfo(o)
          IN  /\ shipping' = [shipping EXCEPT ![i] =
                                [outcome |-> o, ret |-> ship,
                                 early |-> \E j \in pending : j < i]]
              /\ \E m \in MapProduct(items[i], ship) : mapped' = Fulfil(mapped, i, m)
    /\ pending' = pending \ {i}
    /\ UNCHANGED <<variant, endpoint, req, upstream, pc, responses, resp, sku, stuck, log,
                   products, items, env, stripeItems>>
    /\ UNCHANGED signVars

\* Promise.all resolves: the nulls are dropped and the handler replies
SearchResponds ==
    /\ endpoint = "search" /\ pc = "awaitShipping"
    /\ AllSettled
    /\ log' = Logged("shape", 0)
    /\ Reply(200, [kind |-> "results",
                   v |-> [query |-> req.q, results |-> NonNull(mapped)]])
    /\ pc' = "done"
    /\ UNCHANGED <<variant, endpoint, req, upstream, sku, stuck, products, items,
                   pending, shipping, mapped, env, stripeItems>>
    /\ UNCHANGED signVars

\* an outbound call that never settles (no timeout, no cancellation): call 0
\* is the handler's own call, i > 0 the shipping lookup of item i
CallHangs ==
    /\ \/ /\ \/ pc \in {"awaitSearch", "awaitStripe", "awaitImage"}
             \/ pc = "awaitSku" /\ env.appSecret
          /\ 0 \notin stuck
          /\ stuck' = stuck \cup {0}
       \/ /\ pc = "awaitShipping"
          /\ \E i \in pending \ stuck : stuck' = stuck \cup {i}
    /\ UNCHANGED <<variant, endpoint, req, upstream, pc, responses, resp, sku, log,
                   products, items, pending, shipping, mapped, env, stripeItems>>
    /\ UNCHANGED signVars


(***************************************************************************)
(* getSkuDetails (src/server.js 94-130) and the handlers that call it.     *)
(***************************************************************************)
\* what the SKU call does: fetch rejects, a body that is not JSON, or JSON
\* whose first traffic_sku_info_list entry has these fields (none at all when
\* the list is missing)
SkuOutcomes ==
    { [kind |-> "reject", color |-> Undefined, link |-> Undefined],
      [kind |-> "nonjson", color |-> Undefined, link |-> Undefined],
      [kind |-> "info", color |-> Undefined, link |-> Undefined],
      [kind |-> "info", color |-> Str(<<"R", "e", "d">>), link |-> Undefined],
      [kind |-> "info", color |-> Str(<<"R", "e", "d">>), link |-> Str(<<"/", "/", "s", "/", "k", " ", "1", ".", "j", "p", "g", "?", "t", "=", "1">>)] }

\* generateSignedUrl throws inside the try when the secret is undefined
\* (createHmac rejects the key): no call is made
SkuNoSecret == [kind |-> "nosecret", color |-> Undefined, link |-> Undefined]

getSkuDetails(o) ==
    IF o.kind \in {"reject", "nonjson", "nosecret"}
    THEN [color |-> Str(<<>>), skuImage |-> Str(<<>>)]
    ELSE [color |-> OrElse(o.color, Str(<<>>)), skuImage |-> OrElse(o.link, Str(<<>>))]

\* the handler up to its await of getSkuDetails
SkuStart ==
    /\ endpoint \in {"sku-details", "cart/add", "metamask-checkout"} /\ pc = "start"
    /\ log' = IF env.appSecret THEN Logged("sku_call", 0) ELSE log
    /\ pc' = "awaitSku"
    /\ UNCHANGED <<variant, endpoint, req, upstream, responses, resp, sku, stuck, products,
                   items, pending, shipping, mapped, env, stripeItems>>
    /\ UNCHANGED signVars

LineItem(name, color, image, amount) ==
    [name |-> name, color |-> color, image |-> image, unit_amount |-> amount]

\* an amount that treats an unparsable or negative price as 0
ProductAmountClamped(body) ==
    The({ IF Positive(RoundCents(Add(p, f))) THEN RoundCents(Add(p, f)) ELSE Fin(0)
          : p \in { IF variant = "part_001" THEN Number(body.price)
                    ELSE parseFloat(body.price) },
            f \in { IF variant = "part_001" THEN Fin(0)
                    ELSE parseFloat(body.shipping_fee) } })

\* unit_amount of the product line: server.js 261-273, part_000 240,
\* part_001 85
ProductAmount(body) ==
    IF variant = "part_001"
    THEN The({ RoundCents(p) : p \in { Number(body.price) } })
    ELSE The({ RoundCents(Add(p, f)) : p \in { parseFloat(body.price) },
                                       f \in { parseFloat(body.shipping_fee) } })

\* the line_items of /api/cart/add, as the set holding them: server.js
\* 265-277, part_000 243-267, part_001 75-116 (stateSalesTax defaults to 0
\* there)
LineItems(body, color, skuImage) ==
    LET Tax000 == The({ RoundCents(t) : t \in { parseFloat(body.stateSalesTax) } })
        Tax001 == IF body.stateSalesTax.t = "undefined"
                  THEN Fin(0) ELSE Number(body.stateSalesTax)
        Other(name, amount) == LineItem(name, Undefined, Undefined, amount)
    IN  CASE variant = "server" ->
                { <<LineItem("product", color, skuImage, amount)>>
                  : amount \in { ProductAmount(body) } }
          [] variant = "part_000" ->
                { <<LineItem("product", color, skuImage, amount)>>
                      \o (IF Positive(tax) THEN <<Other("Sales Tax", tax)>> ELSE <<>>)
                  : amount \in { ProductAmount(body) }, tax \in { Tax000 } }
          [] variant = "part_001" ->
                { <<LineItem("product", color, skuImage, amount)>>
                      \o (IF Positive(ship)
                          THEN <<Other("Shipping", RoundCents(ship))>> ELSE <<>>)
                      \o (IF Positive(tax)
                          THEN <<Other("Sales Tax", RoundCents(tax))>> ELSE <<>>)
                  : amount \in { ProductAmount(body) },
                    ship \in { Number(body.shipping_fee) },
                    tax \in { Tax001 } }

\* the image of the metamask cart: query string cut, "https:" put before a
\* value that does not start with "http"
NormalizeImage(img) ==
    The({ IF Truthy(cut) /\ ~StartsWith(cut.s, <<"h", "t", "t", "p">>)
          THEN Str(<<"h", "t", "t", "p", "s", ":">> \o cut.s)
          ELSE cut
          : cut \in { IF Truthy(img) THEN Str(BeforeFirst(img.s, "?")) ELSE img } })

\* normalizedImage.replace(/ /g, "%20") throws on undefined in server.js
\* (line 324); part_000 and part_001 use ?. and yield undefined.  img is
\* skuImage || image, which the two normalising steps leave undefined when it
\* is undefined
ImageReplaceThrows(img) == variant = "server" /\ img.t = "undefined"

\* the carts the metamask handler can build (toFixed may go either way on a
\* half)
MetaMaskCarts(body, skuDetails) ==
    UNION { { [color |-> OrElse(skuDetails.color, Str(<<>>)),
               image |-> IF normalizedImage.t = "undefined" THEN Undefined
                         ELSE Str(ReplaceSpaces(normalizedImage.s)),
               price |-> basePrice,
               shipping |-> ship,
               total |-> Add(discountTotal, ship),
               discountTotal |-> d] : d \in ToFixed2(discountTotal) }
            : basePrice \in { parseFloat(body.price) },
              ship \in { NumOrZero(parseFloat(body.shipping_fee)) },
              discountTotal \in { Scale(parseFloat(body.price), 9, 10) },
              normalizedImage \in
                  { NormalizeImage(OrElse(OrElse(skuDetails.skuImage, body.image),
                                          body.image)) } }

\* getSkuDetails returns and the handler runs on: /api/sku-details replies,
\* /api/cart/add calls Stripe, /api/metamask-checkout builds its cart
SkuSettles ==
    /\ pc = "awaitSku" /\ 0 \notin stuck
    /\ \E o \in (IF env.appSecret THEN SkuOutcomes ELSE {SkuNoSecret}) :
       \E d \in { getSkuDetails(o) } :
       \E color \in { OrElse(d.color, Str(<<>>)) } :
       \E skuImage \in { OrElse(d.skuImage, req.image) } :
          /\ sku' = [outcome |-> o, ret |-> d]
          /\ CASE endpoint = "sku-details" ->
                    /\ Reply(200, [kind |-> "sku", v |-> d])
                    /\ pc' = "done"
                    /\ UNCHANGED <<log, stripeItems>>
               [] endpoint = "cart/add" ->
                    /\ stripeItems' \in LineItems(req, color, skuImage)
                    /\ log' = Logged("stripe_call", 0)
                    /\ pc' = "awaitStripe"
                    /\ UNCHANGED <<responses, resp>>
               [] endpoint = "metamask-checkout" ->
                    /\ IF ImageReplaceThrows(OrElse(skuImage, req.image))
                       THEN Reply(500, [kind |-> "error",
                                        v |-> "Failed to build MetaMask checkout cart"])
                       ELSE \E c \in MetaMaskCarts(req, d) :
                                Reply(200, [kind |-> "cart", v |-> c])
                    /\ pc' = "done"
                    /\ UNCHANGED <<log, stripeItems>>
    /\ UNCHANGED <<variant, endpoint, req, upstream, stuck, products, items, pending,
                   shipping, mapped, env>>
    /\ UNCHANGED signVars

\* stripe.checkout.sessions.create settles
StripeSettles ==
    /\ endpoint = "cart/add" /\ pc = "awaitStripe" /\ 0 \notin stuck
    /\ \/ Reply(200, [kind |-> "url", v |-> "session.url"])
       \/ Reply(500, [kind |-> "error", v |-> "Failed to create checkout session"])
    /\ pc' = "done"
    /\ UNCHANGED <<variant, endpoint, req, upstream, sku, stuck, log, products, items,
                   pending, shipping, mapped, env, stripeItems>>
    /\ UNCHANGED signVars

(***************************************************************************)
(* /api/image-proxy (src/unnamed/part_000 321-337, part_001 180-194).      *)
(***************************************************************************)
ImageStart ==
    /\ endpoint = "image-proxy" /\ pc = "start"
    /\ IF ~Truthy(req.url)
       THEN /\ Reply(400, [kind |-> "text", v |-> "Missing url query"])
            /\ pc' = "done"
            /\ UNCHANGED log
       ELSE /\ log' = Logged("image_call", 0)
            /\ pc' = "awaitImage"
            /\ UNCHANGED <<responses, resp>>
    /\ UNCHANGED <<variant, endpoint, req, upstream, sku, stuck, products, items, pending,
                   shipping, mapped, env, stripeItems>>
    /\ UNCHANGED signVars

\* fetch rejects or arrayBuffer rejects (500), a non-OK status (502), or the
\* image is relayed
ImageSettles ==
    /\ endpoint = "image-proxy" /\ pc = "awaitImage" /\ 0 \notin stuck
    /\ \/ Reply(500, [kind |-> "text", v |-> "Image proxy failed"])
       \/ Reply(502, [kind |-> "text", v |-> "Failed to fetch image"])
       \/ Reply(200, [kind |-> "image", v |-> "buffer"])
    /\ pc' = "done"
    /\ UNCHANGED <<variant, endpoint, req, upstream, sku, stuck, log, products, items,
                   pending, shipping, mapped, env, stripeItems>>
    /\ UNCHANGED signVars

(***************************************************************************)
(* Requests.                                                               *)
(***************************************************************************)
RawNumbers ==
    { Undefined, Str(<<"a", "b", "c">>), Str(<<"1", "9", ".", "9", "9">>), Str(<<"0">>), Str(<<"-", "5", ".", "0", "0">>), Str(<<"I", "n", "f", "i", "n", "i", "t", "y">>) }

\* a fee or a tax can also be a positive amount under half a cent
FeeNumbers == RawNumbers \cup { Str(<<"0", ".", "0", "0", "4">>) }

Images == { Undefined, Str(<<"/", "/", "a", "/", "i", " ", "j", ".", "j", "p", "g", "?", "x", "=", "1">>), Str(<<"h", "t", "t", "p", ":", "/", "/", "a", "/", "i", ".", "j", "p", "g">>) }

NoBody ==
    [q |-> Undefined, url |-> Undefined, price |-> Undefined,
     shipping_fee |-> Undefined, stateSalesTax |-> Undefined, image |-> Undefined]

SearchRequests == { [NoBody EXCEPT !.q = q] : q \in {Undefined, Str(<<>>), Str(<<"t", "o", "y">>)} }

CheckoutRequests ==
    { [NoBody EXCEPT !.price = p, !.shipping_fee = f, !.stateSalesTax = t, !.image = i]
        : p \in RawNumbers, f \in FeeNumbers, t \in FeeNumbers, i \in Images }

ImageRequests == { [NoBody EXCEPT !.url = u] : u \in {Undefined, Str(<<"h", "t", "t", "p", ":", "/", "/", "a", "/", "i", ".", "j", "p", "g">>)} }

Init ==
    /\ \/ /\ endpoint = "search"
          /\ variant \in {"server", "part_000"}
          /\ req \in SearchRequests
          /\ env \in {EnvAll, EnvNoKey, EnvNoSecret}
       \/ /\ endpoint = "sku-details"
          /\ variant \in {"server", "part_000"}
          /\ req = NoBody
          /\ env \in {EnvAll, EnvNoSecret}
       \/ /\ endpoint = "cart/add"
          /\ variant \in Variants
          \* server.js does not read stateSalesTax
          /\ req \in { r \in CheckoutRequests :
                          variant = "server" => r.stateSalesTax = Undefined }
          /\ env \in {EnvAll, EnvNoSecret}
       \/ /\ endpoint = "metamask-checkout"
          /\ variant \in Variants
          /\ req \in { r \in CheckoutRequests : r.stateSalesTax = Undefined }
          /\ env \in {EnvAll, EnvNoSecret}
       \/ /\ endpoint = "image-proxy"
          /\ variant \in {"part_000", "part_001"}
          /\ req \in ImageRequests
          /\ env = EnvAll
    /\ pc = "start"
    /\ responses = 0 /\ resp = None /\ sku = None /\ stuck = {}
    /\ log = <<>> /\ upstream = None /\ products = <<>> /\ items = <<>> /\ pending = {}
    /\ shipping = <<>> /\ mapped = <<>> /\ stripeItems = None
    /\ params1 = <<>> /\ params2 = <<>> /\ secret = "s1" /\ url1 = None /\ url2 = None

Next ==
    \/ SearchStart
    \/ SearchTry
    \/ SearchFails
    \/ SearchReturns
    \/ \E i \in 1..MaxItems : ShippingSettles(i)
    \/ SearchResponds
    \/ SkuStart
    \/ SkuSettles
    \/ StripeSettles
    \/ ImageStart
    \/ ImageSettles
    \/ CallHangs

Spec == Init /\ [][Next]_vars


(***************************************************************************)
(* Vocabulary of the claims about a search.                                *)
(***************************************************************************)
SearchReplied(status) ==
    endpoint = "search" /\ responses > 0 /\ resp.status = status

Results == resp.body.v.results

LogIndices(e) == { k \in 1..Len(log) : log[k].e = e }

ShipCallIds == { log[k].i : k \in LogIndices("ship_call") }

\* the lookup of item i has settled, and it failed: fetch threw, the body was
\* not JSON, or the response carried no result object
LookupFailed(i) ==
    /\ shipping[i] # None
    /\ shipping[i].outcome.kind \in {"reject", "nonjson", "noresult"}

IsFallback(r) ==
    /\ r.shipping_fee = Str(<<"0">>)
    /\ r.min_delivery_days = Str(<<"N", "/", "A">>)
    /\ r.max_delivery_days = Str(<<"N", "/", "A">>)

\* h contains n: h is some prefix, then n, then some suffix
Contains(h, n) ==
    \E a \in 0..Len(h) :
        /\ a + Len(n) <= Len(h)
        /\ \A k \in 1..Len(n) : h[a + k] = n[k]

CategoryText(x) == IF x.t = "string" THEN x.s ELSE <<>>

ExcludedCategory(p) ==
    \/ Contains(CategoryText(p.first_level_category_name), <<"S", "h", "o", "e", "s">>)
    \/ Contains(CategoryText(p.first_level_category_name), <<"C", "l", "o", "t", "h", "i", "n", "g">>)
    \/ Contains(CategoryText(p.second_level_category_name), <<"C", "l", "o", "t", "h", "i", "n", "g">>)

(***************************************************************************)
(* C1: the shipping lookups are started for all surviving items and the    *)
(* search response is produced only after every one of them has settled;   *)
(* an item whose lookup fails is still returned, with shipping_fee "0" and *)
(* delivery days "N/A", and a failing lookup never turns the search into   *)
(* an error.                                                               *)
(***************************************************************************)
C1_FanOutWaitsForAllKeepsFailures ==
    (endpoint = "search" /\ pc \in {"awaitShipping", "done"} /\ LogIndices("filter") # {})
    =>
    /\ ShipCallIds = { items[i].product_id : i \in 1..Len(items) }
    /\ responses > 0 =>
          /\ pending = {}
          /\ \A i \in 1..Len(items) : shipping[i] # None
          /\ resp.status = 200
    /\ \A i \in 1..Len(items) :
          LookupFailed(i) =>
              /\ mapped[i] # None
              /\ mapped[i].id = items[i].product_id
              /\ IsFallback(mapped[i])
              /\ responses > 0 =>
                    \E k \in 1..Len(Results) :
                        Results[k].id = items[i].product_id /\ IsFallback(Results[k])

C1_Witness ==
    /\ SearchReplied(200)
    /\ Len(items) = 2
    /\ \E i, j \in 1..Len(items) :
          /\ LookupFailed(i)
          /\ shipping[j].outcome.kind = "result"
          /\ Len(Results) = 2

(***************************************************************************)
(* C2 as stated: an item whose shipping lookup failed is not in the        *)
(* returned results.                                                       *)
(***************************************************************************)
C2_FailedLookupsAreDropped ==
    SearchReplied(200) =>
        \A i \in 1..Len(items) :
            LookupFailed(i) =>
                ~\E k \in 1..Len(Results) : Results[k].id = items[i].product_id

(***************************************************************************)
(* C2 as amended: no item is dropped for its shipping lookup.  Every item  *)
(* that survived the category filter is in the returned results, and one   *)
(* whose lookup failed is there with the fallback values.                  *)
(***************************************************************************)
C2_FailedLookupsAreKept ==
    SearchReplied(200) =>
        /\ Len(Results) = Len(items)
        /\ \A i \in 1..Len(items) :
              \E k \in 1..Len(Results) :
                  /\ Results[k].id = items[i].product_id
                  /\ LookupFailed(i) => IsFallback(Results[k])

C2_Witness ==
    /\ SearchReplied(200)
    /\ \E i \in 1..Len(items) :
          /\ LookupFailed(i)
          /\ \E k \in 1..Len(Results) : Results[k].id = items[i].product_id

(***************************************************************************)
(* C4 as stated: the per-item shipping lookups are made for the items the  *)
(* upstream returned, and the category filter is applied after them.       *)
(***************************************************************************)
C4_FilterAfterLookups ==
    SearchReplied(200) =>
        /\ ShipCallIds = { products[i].product_id : i \in 1..Len(products) }
        /\ \A f \in LogIndices("filter") : \A c \in LogIndices("ship_call") : c < f

(***************************************************************************)
(* C4 as amended: a search runs the upstream search call, then the         *)
(* category filter, then one shipping lookup for each item that survived   *)
(* the filter (none for a filtered-out item), then the response shaping.   *)
(***************************************************************************)
C4_FilterBeforeLookups ==
    endpoint = "search" =>
        /\ LogIndices("search_call") \subseteq {1}
        /\ LogIndices("filter") \subseteq {2}
        /\ \A c \in LogIndices("ship_call") :
              /\ LogIndices("filter") = {2}
              /\ c > 2
              /\ \E i \in 1..Len(products) :
                    /\ products[i].product_id = log[c].i
                    /\ ~ExcludedCategory(products[i])
              /\ \A d \in LogIndices("ship_call") : log[d].i = log[c].i => d = c
        /\ \A h \in LogIndices("shape") :
              /\ h = Len(log)
              /\ LogIndices("filter") = {2}
              /\ \A i \in 1..Len(products) :
                    ~ExcludedCategory(products[i]) => products[i].product_id \in ShipCallIds
        /\ SearchReplied(200) => LogIndices("shape") # {}

C4_Witness ==
    /\ SearchReplied(200)
    /\ Len(items) >= 1
    /\ Len(products) > Len(items)

(***************************************************************************)
(* C5: no product in the returned results has a first-level category       *)
(* containing "Shoes" or "Clothing" or a second-level category containing  *)
(* "Clothing", and every upstream product without such a category, also    *)
(* one whose category fields are missing, is kept.                         *)
(***************************************************************************)
C5_CategoryFilter ==
    (endpoint = "search" /\ LogIndices("filter") # {}) =>
        /\ \A i \in 1..Len(items) : ~ExcludedCategory(items[i])
        /\ \A j \in 1..Len(products) :
              ~ExcludedCategory(products[j]) => \E i \in 1..Len(items) : items[i] = products[j]
        /\ SearchReplied(200) =>
              /\ \A k \in 1..Len(Results) :
                    \E j \in 1..Len(products) :
                        /\ products[j].product_id = Results[k].id
                        /\ ~ExcludedCategory(products[j])
              /\ \A j \in 1..Len(products) :
                    ~ExcludedCategory(products[j]) =>
                        \E k \in 1..Len(Results) : Results[k].id = products[j].product_id

C5_Witness ==
    /\ SearchReplied(200)
    /\ \E a, b \in 1..Len(products) :
          /\ products[a].first_level_category_name = Undefined
          /\ products[b].second_level_category_name = Str(<<"C", "l", "o", "t", "h", "i", "n", "g">>)
          /\ \E k \in 1..Len(Results) : Results[k].id = products[a].product_id
          /\ ~\E k \in 1..Len(Results) : Results[k].id = products[b].product_id


(***************************************************************************)
(* C3: on /api/search, /api/sku-details, /api/cart/add and                 *)
(* /api/metamask-checkout every failure of an upstream call is swallowed:  *)
(* the client gets a success response built from the hardcoded fallback    *)
(* values or a 500 whose body is fixed, so no upstream error detail        *)
(* reaches it; no call is made twice; and the handler ends with its        *)
(* response, not with an exception.                                        *)
(***************************************************************************)
FixedErrorText ==
    CASE endpoint = "search" -> "Failed to fetch products"
      [] endpoint = "cart/add" -> "Failed to create checkout session"
      [] endpoint = "metamask-checkout" -> "Failed to build MetaMask checkout cart"
      [] OTHER -> "none"

SkuCallFailed == sku # None /\ sku.outcome.kind \in {"reject", "nonjson"}

SkuFallback == [color |-> Str(<<>>), skuImage |-> Str(<<>>)]

C3_UpstreamFailuresSwallowed ==
    endpoint \in {"search", "sku-details", "cart/add", "metamask-checkout"} =>
        /\ responses > 0 =>
              \/ resp.status = 200
              \/ resp.status = 400 /\ endpoint = "search" /\ log = <<>>
              \/ /\ resp.status = 500
                 /\ endpoint # "sku-details"
                 /\ resp.body = [kind |-> "error", v |-> FixedErrorText]
        /\ \A e \in {"search_call", "sku_call", "stripe_call"} :
              Cardinality(LogIndices(e)) <= 1
        /\ \A c, d \in LogIndices("ship_call") : log[c].i = log[d].i => c = d
        /\ SkuCallFailed =>
              /\ sku.ret = SkuFallback
              /\ (endpoint = "sku-details" /\ responses > 0) =>
                    resp = [status |-> 200, body |-> [kind |-> "sku", v |-> SkuFallback]]
        /\ \A i \in 1..Len(items) : LookupFailed(i) => IsFallback(mapped[i])
        /\ pc = "done" => responses = 1

C3_Witness ==
    /\ endpoint = "search"
    /\ pc = "done"
    /\ resp.status = 500
    /\ LogIndices("search_call") = {1}

(***************************************************************************)
(* C7: both checkout endpoints look the SKU up before they build their     *)
(* response, and a failed or empty SKU lookup does not fail the checkout:  *)
(* the color falls back to "", the image to the client's, and the endpoint *)
(* goes on to its success response.                                        *)
(***************************************************************************)
SkuFailedOrEmpty ==
    /\ sku # None
    /\ \/ sku.outcome.kind \in {"reject", "nonjson", "nosecret"}
       \/ sku.outcome.color = Undefined /\ sku.outcome.link = Undefined

C7_SkuFailureDoesNotFailCheckout ==
    /\ (endpoint \in {"cart/add", "metamask-checkout"} /\ responses > 0) => sku # None
    /\ (endpoint = "cart/add" /\ SkuFailedOrEmpty) =>
          /\ pc \in {"awaitStripe", "done"}
          /\ LogIndices("stripe_call") # {}
          /\ stripeItems[1].color = Str(<<>>)
          /\ stripeItems[1].image = req.image
    /\ (endpoint = "metamask-checkout" /\ SkuFailedOrEmpty /\ responses > 0) =>
          /\ resp.status = 200
          /\ resp.body.v.color = Str(<<>>)
          /\ req.image # Undefined => resp.body.v.image # Undefined

(***************************************************************************)
(* C8: the client's price, shipping fee and sales tax are not validated.   *)
(* No checkout request is turned away for a negative, non-finite or        *)
(* unparsable number: /api/cart/add always goes on to the Stripe call and  *)
(* /api/metamask-checkout to its cart, with amounts computed from the      *)
(* values as parsed (a 500 of the metamask endpoint has another cause, the *)
(* missing image).                                                         *)
(***************************************************************************)
C8_NumbersNotValidated ==
    /\ (endpoint = "cart/add" /\ pc \in {"awaitStripe", "done"}) =>
          /\ LogIndices("stripe_call") # {}
          /\ stripeItems[1].unit_amount =
                IF variant = "part_001"
                THEN RoundCents(Number(req.price))
                ELSE RoundCents(Add(parseFloat(req.price), parseFloat(req.shipping_fee)))
          /\ (variant = "part_001" /\ req.price = Str(<<"-", "5", ".", "0", "0">>)) =>
                stripeItems[1].unit_amount = Fin(-500)
          /\ (variant = "part_001" /\ req.price = Str(<<"I", "n", "f", "i", "n", "i", "t", "y">>)) =>
                stripeItems[1].unit_amount = Infinity
          /\ (variant # "part_001" /\ req.price = Str(<<"-", "5", ".", "0", "0">>)
                  /\ req.shipping_fee = Str(<<"0">>)) =>
                stripeItems[1].unit_amount = Fin(-500)
          /\ req.price \in {Undefined, Str(<<"a", "b", "c">>)} => stripeItems[1].unit_amount = NaN
          /\ responses > 0 => resp.status \in {200, 500}
    /\ (endpoint = "metamask-checkout" /\ responses > 0) =>
          /\ resp.status \in {200, 500}
          /\ resp.status = 500 => (variant = "server" /\ req.image = Undefined)
          /\ resp.status = 200 =>
                /\ resp.body.v.price = parseFloat(req.price)
                /\ req.price = Str(<<"-", "5", ".", "0", "0">>) =>
                      /\ resp.body.v.price = Fin(-5000)
                      /\ resp.body.v.discountTotal = <<"-", "4", ".", "5", "0">>
                /\ req.price \in {Undefined, Str(<<"a", "b", "c">>)} =>
                      /\ resp.body.v.price = NaN
                      /\ resp.body.v.total = NaN
                      /\ resp.body.v.discountTotal = <<"N", "a", "N">>
                /\ req.shipping_fee = Str(<<"-", "5", ".", "0", "0">>) => resp.body.v.shipping = Fin(-5000)

C8_Witness ==
    /\ endpoint = "cart/add"
    /\ variant = "part_001"
    /\ req.price = Str(<<"-", "5", ".", "0", "0">>)
    /\ req.shipping_fee = Str(<<"a", "b", "c">>)
    /\ req.stateSalesTax = Str(<<"I", "n", "f", "i", "n", "i", "t", "y">>)
    /\ responses = 1
    /\ resp.status = 200

(***************************************************************************)
(* C9: every request gets exactly one response, never two and, when its    *)
(* outbound calls settle, never none (a handler none of whose calls hangs  *)
(* can always take a step until it has replied, and its steps are          *)
(* bounded); a request with an outbound call that never settles gets no    *)
(* response.                                                               *)
(***************************************************************************)
\* a step of the handler that is not a call being left to hang
Progress == Next /\ stuck' = stuck

PcRank ==
    CASE pc = "start" -> 4
      [] pc = "try" -> 3
      [] pc \in {"awaitSearch", "awaitSku"} -> 2
      [] pc \in {"awaitShipping", "awaitStripe", "awaitImage"} -> 1
      [] OTHER -> 0

\* what is left to do: it falls with every step, so a handler that can always
\* take a step ends
Remaining ==
    (MaxItems + 2) * PcRank + Cardinality(pending \ stuck)
        + (IF 0 \in stuck THEN 0 ELSE 1)

C9_ExactlyOneResponse ==
    /\ [](responses <= 1)
    /\ [](pc = "done" => responses = 1)
    /\ [](stuck # {} => responses = 0)
    /\ []((pc # "done" /\ stuck = {}) => ENABLED Progress)
    /\ [][Remaining' < Remaining]_vars

C9_Witness ==
    /\ endpoint = "search"
    /\ pc = "done"
    /\ responses = 1
    /\ resp.status = 200
    /\ Len(items) = 2

(***************************************************************************)
(* C10: every product of a search response carries a price equal to 1.5    *)
(* times the upstream target_sale_price of the same item, rounded to two   *)
(* decimal places ("NaN" when the upstream price does not parse), and the  *)
(* shipping_fee and delivery days that this item's own lookup returned.    *)
(***************************************************************************)
Abs(n) == IF n < 0 THEN 0 - n ELSE n

TwoDecimals(t) == Len(t) >= 4 /\ t[Len(t) - 2] = "." /\ \A k \in 1..Len(t) : t[k] # " "

OwnShipping(r, o) ==
    /\ r.shipping_fee = (IF o.kind = "result" /\ Truthy(o.fee) THEN o.fee ELSE Str(<<"0">>))
    /\ r.min_delivery_days =
          (IF o.kind = "result" /\ Truthy(o.min) THEN o.min ELSE Str(<<"N", "/", "A">>))
    /\ r.max_delivery_days =
          (IF o.kind = "result" /\ Truthy(o.max) THEN o.max ELSE Str(<<"N", "/", "A">>))

C10_MarkedUpPriceOwnShipping ==
    SearchReplied(200) =>
        \A k \in 1..Len(Results) :
            \E i \in 1..Len(items) :
                LET r == Results[k]
                    x == parseFloat(items[i].target_sale_price)
                    q == parseFloat(Str(r.price))
                IN  /\ items[i].product_id = r.id
                    /\ x.k = "fin" =>
                          /\ q.k = "fin"
                          /\ TwoDecimals(r.price)
                          /\ 2 * Abs(q.v * 2 - x.v * 3) <= 2 * 10
                    /\ x.k = "nan" => r.price = <<"N", "a", "N">>
                    /\ OwnShipping(r, shipping[i].outcome)

C10_Witness ==
    /\ SearchReplied(200)
    /\ Len(Results) = 2
    /\ Results[1].price = <<"1", "5", ".", "0", "0">>
    /\ Results[2].price \in {<<"0", ".", "0", "7">>, <<"0", ".", "0", "8">>}
    /\ Results[1].shipping_fee = Str(<<"3", ".", "9", "9">>)
    /\ Results[2].shipping_fee = Str(<<"1", ".", "5", "0">>)


(***************************************************************************)
(* C11: the search results keep the order of the filtered upstream list    *)
(* whatever the order in which the shipping lookups complete: the value of *)
(* the i-th surviving item's mapper sits at index i as soon as it settles, *)
(* and result i of the response is the i-th surviving upstream item.       *)
(***************************************************************************)
Surviving == SelectSeq(products, LAMBDA p : ~ExcludedCategory(p))

C11_ResultsKeepUpstreamOrder ==
    endpoint = "search" =>
        /\ \A i \in 1..Len(mapped) :
              mapped[i] # None => mapped[i].id = items[i].product_id
        /\ SearchReplied(200) =>
              /\ items = Surviving
              /\ Len(Results) = Len(Surviving)
              /\ \A i \in 1..Len(Results) : Results[i].id = Surviving[i].product_id

\* the second surviving item's lookup completed while the first's was pending
C11_Witness ==
    /\ SearchReplied(200)
    /\ Len(Results) = 2
    /\ shipping[2].early
    /\ Results[1].id = items[1].product_id
    /\ Results[2].id = items[2].product_id
    /\ Results[1].id # Results[2].id

(***************************************************************************)
(* C12: a search with a missing or empty q is answered 400 {error: "Query  *)
(* is required"} and one with the app key or secret unset 500, both        *)
(* without any upstream search or shipping call; a failed upstream search  *)
(* (non-OK status or non-JSON body) is answered 500 without any shipping   *)
(* lookup and without partial results.                                     *)
(***************************************************************************)
EmptyQuery == ~Truthy(OrElse(req.q, Str(<<>>)))

UpstreamSearchFailed ==
    /\ upstream # None
    /\ upstream.status = 503 \/ upstream.kind = "nonjson"

SessionRequested ==
    endpoint = "cart/add" /\ pc \in {"awaitStripe", "done"}

LineNames == [k \in 1..Len(stripeItems) |-> stripeItems[k].name]

ExtraLines == 2..Len(stripeItems)

PositiveInteger(a) == a.k = "fin" /\ a.v > 0

TaxAbsentZeroNegativeOrUnparsable ==
    req.stateSalesTax \in { Undefined, Str(<<"0">>), Str(<<"-", "5", ".", "0", "0">>),
                            Str(<<"a", "b", "c">>) }

LineItemsOrdered ==
    /\ Len(stripeItems) >= 1
    /\ LineNames \in { <<"product">>,
                        <<"product", "Shipping">>,
                        <<"product", "Sales Tax">>,
                        <<"product", "Shipping", "Sales Tax">> }

NoTaxLineStillCreates ==
    TaxAbsentZeroNegativeOrUnparsable =>
        /\ \A k \in 1..Len(stripeItems) : stripeItems[k].name # "Sales Tax"
        /\ LogIndices("stripe_call") # {}

(***************************************************************************)
(* C13 as stated: the line items are one product line first, then at most  *)
(* one "Shipping" line and at most one "Sales Tax" line; every Shipping or *)
(* Sales Tax line has a strictly positive integer unit_amount; a request   *)
(* with sales tax absent, zero, negative or unparsable produces no Sales   *)
(* Tax line and still creates the session.                                 *)
(***************************************************************************)
C13_ExtraLinesPositiveIntegers ==
    SessionRequested =>
        /\ LineItemsOrdered
        /\ \A k \in ExtraLines : PositiveInteger(stripeItems[k].unit_amount)
        /\ NoTaxLineStillCreates

(***************************************************************************)
(* C13 as amended: the shape is as stated, and a Shipping or Sales Tax     *)
(* line is there exactly when its value is > 0 as the revision tests it    *)
(* (part_000: the rounded cents of parseFloat(stateSalesTax); part_001:    *)
(* Number(shipping_fee), Number(stateSalesTax)); its unit_amount is        *)
(* Math.round(value * 100), which is never negative or NaN, but is 0 for a *)
(* positive value under half a cent in part_001 and Infinity for an        *)
(* infinite value.                                                         *)
(***************************************************************************)
TaxValue ==
    IF variant = "part_001"
    THEN (IF req.stateSalesTax = Undefined THEN Fin(0) ELSE Number(req.stateSalesTax))
    ELSE parseFloat(req.stateSalesTax)

HasLine(name) == \E k \in 1..Len(stripeItems) : stripeItems[k].name = name

C13_ExtraLinesRoundedValues ==
    SessionRequested =>
        /\ LineItemsOrdered
        /\ NoTaxLineStillCreates
        /\ HasLine("Shipping") <=>
              (variant = "part_001" /\ Number(req.shipping_fee).k \in {"fin", "inf"}
                  /\ (Number(req.shipping_fee).k = "fin" => Number(req.shipping_fee).v > 0))
        /\ HasLine("Sales Tax") <=>
              CASE variant = "part_001" ->
                       TaxValue.k = "inf" \/ (TaxValue.k = "fin" /\ TaxValue.v > 0)
                [] variant = "part_000" ->
                       TaxValue.k = "inf" \/ (TaxValue.k = "fin" /\ TaxValue.v >= 5)
                [] OTHER -> FALSE
        /\ \A k \in ExtraLines :
              LET a == stripeItems[k].unit_amount
                  x == IF stripeItems[k].name = "Shipping"
                       THEN Number(req.shipping_fee) ELSE TaxValue
              IN  /\ a.k \in {"fin", "inf"}
                  /\ a.k = "inf" <=> x.k = "inf"
                  /\ a.k = "fin" => /\ a.v >= 0
                                     /\ 10 * a.v - 5 <= x.v
                                     /\ x.v < 10 * a.v + 5
                                     /\ a.v = 0 => variant = "part_001"

C13_Witness ==
    /\ SessionRequested
    /\ variant = "part_001"
    /\ LineNames = <<"product", "Shipping", "Sales Tax">>
    /\ stripeItems[2].unit_amount = Infinity
    /\ stripeItems[3].unit_amount = Fin(0)

(***************************************************************************)
(* C14: the /api/metamask-checkout cart has discountTotal = 0.9 * price    *)
(* reported to two decimals, shipping = the parsed shipping_fee or 0 when  *)
(* it is missing, unparsable or zero, and total = discountTotal +          *)
(* shipping; its image has the query string removed, starts with "https:"  *)
(* when it did not start with "http", and has its spaces replaced by %20;  *)
(* when neither the SKU lookup nor the client supplies an image the        *)
(* endpoint still returns a cart rather than a 500.                        *)
(***************************************************************************)
CartReplied == endpoint = "metamask-checkout" /\ responses > 0

\* the image the handler starts from: skuImage || image
SourceImage == OrElse(sku.ret.skuImage, req.image)

CartArithmetic(c) ==
    LET p == parseFloat(req.price)
        f == parseFloat(req.shipping_fee)
        q == parseFloat(Str(c.discountTotal))
    IN  /\ c.price = p
        /\ c.shipping = (IF f.k = "nan" \/ f = Fin(0) THEN Fin(0) ELSE f)
        /\ p.k = "fin" => /\ TwoDecimals(c.discountTotal)
                           /\ q.k = "fin"
                           /\ Abs(10 * q.v - 9 * p.v) <= 50
        /\ p.k # "fin" => q.k = p.k
        /\ (p.k = "fin" /\ c.shipping.k = "fin") =>
              /\ c.total.k = "fin"
              /\ 10 * c.total.v = 9 * p.v + 10 * c.shipping.v

CartImage(c) ==
    IF SourceImage = Undefined
    THEN c.image = Undefined
    ELSE /\ c.image.t = "string"
         /\ ~Contains(c.image.s, <<"?">>)
         /\ ~Contains(c.image.s, <<" ">>)
         /\ StartsWith(c.image.s, <<"h", "t", "t", "p">>)
         /\ ~StartsWith(SourceImage.s, <<"h", "t", "t", "p">>) =>
               StartsWith(c.image.s, <<"h", "t", "t", "p", "s", ":">>)
         /\ Len(c.image.s) >= Len(BeforeFirst(SourceImage.s, "?"))

C14_MetaMaskCart ==
    CartReplied =>
        /\ resp.status = 200
        /\ CartArithmetic(resp.body.v)
        /\ CartImage(resp.body.v)

(***************************************************************************)
(* C6: generateSignedUrl returns the same URL for the same key/value pairs *)
(* whatever the insertion order; the query lists every parameter exactly   *)
(* once in ascending key order, each value URL-encoded, with the sign      *)
(* parameter last, and the signature is the HMAC under the secret of       *)
(* key1value1key2value2... over the same ascending keys with raw values.   *)
(***************************************************************************)
AscendingKeys(params) ==
    CHOOSE ks \in [1..Len(params) -> Range(ObjectKeys(params))] :
        \A i, j \in 1..Len(params) : i < j => StrLess(ks[i], ks[j])

ExpectedUrl(params, sec) ==
    LET ks == AscendingKeys(params)
        n == Len(params)
    IN  [text |-> ALIEXPRESS_BASE_URL \o <<"?">>
                  \o Flatten([i \in 1..n |->
                        ks[i] \o <<"=">> \o encodeURIComponent(ParamValue(params, ks[i]))
                            \o (IF i < n THEN <<"&">> ELSE <<>>)])
                  \o <<"&", "s", "i", "g", "n", "=">>,
         sign |-> [hmac |-> <<sec, Flatten([i \in 1..n |->
                                   ks[i] \o ParamValue(params, ks[i])])>>]]

C6_SignedUrlDeterministic ==
    /\ Range(params1) = Range(params2)
    /\ url1 # None => url1 = ExpectedUrl(params1, secret)
    /\ url2 # None => url2 = ExpectedUrl(params1, secret)
    /\ (url1 # None /\ url2 # None) => url1 = url2

C6_Witness ==
    /\ url1 # None /\ url2 # None
    /\ Len(params1) >= 2
    /\ params1 # params2
    /\ ObjectKeys(params1) # SortedKeys(params1)
    /\ \E i \in 1..Len(params1) : " " \in Range(params1[i][2])

====
